---------------------------- MODULE Spec2Model ----------------------------
(***************************************************************************)
(* Model of main.py: a pipeline that reads three inputs, fetches a         *)
(* captioned image, ensures a folder on the storage backend, uploads the   *)
(* image and appends a record to result.json.                              *)
(*                                                                         *)
(* Text is a sequence of Unicode code points, bytes a sequence of 0..255.  *)
(* A Python value that may be None is a record [t, v]: t = "None" or the   *)
(* type, v the value (<<>> for None).                                      *)
(***************************************************************************)
EXTENDS Integers, Sequences, FiniteSets, TLC

\* ------------------------------------------------------------------ bounds
MaxLen == 2
MaxPayload == 1
MaxPrior == 2

\* ------------------------------------------------------- values and text
Procs == {1, 2}

None == [t |-> "None", v |-> <<>>]
Some(type, val) == [t |-> type, v |-> val]

\* Python truthiness of an optional bytes value: None and b"" are both falsy.
Falsy(x) == x.t = "None" \/ Len(x.v) = 0

RECURSIVE SeqsUpTo(_, _)
SeqsUpTo(S, n) ==
    IF n = 0 THEN {<<>>}
    ELSE LET shorter == SeqsUpTo(S, n - 1)
         IN  shorter \cup {Append(s, c) : s \in {t \in shorter : Len(t) = n - 1}, c \in S}

\* Code points: "a" 97, " " 32, "!" 33, Cyrillic "п" 1087.
CaptionChars == {97, 32, 33, 1087}

\* "Hello World!"
HelloWorld == <<72, 101, 108, 108, 111, 32, 87, 111, 114, 108, 100, 33>>
\* "a_5 -Z"
Sample_a_5_Z == <<97, 95, 53, 32, 45, 90>>
\* "group1"
Group1 == <<103, 114, 111, 117, 112, 49>>
\* ".jpg"
DotJpg == <<46, 106, 112, 103>>
\* "/"
Slash == <<47>>

\* str.isspace for the code points a console line can hold.
IsSpace(c) == c \in {9, 11, 12, 28, 29, 30, 31, 32, 133, 160}

\* str.isalnum: Unicode letters and digits, here ASCII and the Cyrillic block.
IsAlnum(c) ==
    \/ c \in 48..57
    \/ c \in 65..90
    \/ c \in 97..122
    \/ c \in 1040..1103

RECURSIVE lstrip(_)
lstrip(s) ==
    IF s # <<>> /\ IsSpace(Head(s)) THEN lstrip(Tail(s)) ELSE s

RECURSIVE rstrip(_)
rstrip(s) ==
    IF s # <<>> /\ IsSpace(s[Len(s)]) THEN rstrip(SubSeq(s, 1, Len(s) - 1)) ELSE s

strip(s) == rstrip(lstrip(s))

\* line 155: keep alphanumerics, space, underscore and hyphen; else "_".
Sanitize(text) ==
    [i \in 1..Len(text) |->
        IF IsAlnum(text[i]) \/ text[i] \in {32, 95, 45} THEN text[i] ELSE 95]

ReplaceSpacesKeep(s) == s

\* line 156: file_name.replace(" ", "_")
ReplaceSpaces(s) ==
    [i \in 1..Len(s) |-> IF s[i] = 32 THEN 95 ELSE s[i]]

DeriveFileName(text) == ReplaceSpaces(Sanitize(text))

\* line 74: f"{folder_name}/{file_name}.jpg"
FullPath(folder_name, file_name) == folder_name \o Slash \o file_name \o DotJpg

\* line 168: round(len / (1024 * 1024), 2), in hundredths, ties to even.
RoundMbHundredths(n) ==
    LET unit == 1024 * 1024
        q == (n * 100) \div unit
        r == (n * 100) % unit
    IN  IF 2 * r > unit THEN q + 1
        ELSE IF 2 * r = unit THEN q + (q % 2)
        ELSE q

MakeFileInfoRawName(date, user_text, file_name, image_bytes, group_name, file_path) ==
    [ date            |-> date,
      text            |-> user_text,
      file_name       |-> file_name,
      file_size_bytes |-> Len(image_bytes),
      file_size_mb    |-> RoundMbHundredths(Len(image_bytes)),
      folder          |-> group_name,
      yandex_path     |-> file_path,
      status          |-> "uploaded" ]

\* lines 163-172
MakeFileInfo(date, user_text, file_name, image_bytes, group_name, file_path) ==
    [ date            |-> date,
      text            |-> user_text,
      file_name       |-> file_name \o DotJpg,
      file_size_bytes |-> Len(image_bytes),
      file_size_mb    |-> RoundMbHundredths(Len(image_bytes)),
      folder          |-> group_name,
      yandex_path     |-> file_path,
      status          |-> "uploaded" ]


\* ------------------------------------------------------------ environment
Bytes == {0, 255}
Payloads == SeqsUpTo(Bytes, MaxPayload)

\* What the operator may type at the three prompts of lines 133-135.
RawCaptions == SeqsUpTo(CaptionChars, MaxLen) \cup {HelloWorld, Sample_a_5_Z}
RawTokens == {<<>>, <<32>>, <<32, 116>>}
RawFolders == {<<>>, <<32>>, Group1, <<103, 32>>}
RawInputs == RawCaptions \X RawTokens \X RawFolders

\* An exchange with a remote service: err is "none" or the exception that
\* requests raises; json is what response.json() would give.
Response(err, status, body, json) ==
    [err |-> err, status |-> status, body |-> body, json |-> json]

FetchResponses ==
    {Response("Timeout", 0, <<>>, "invalid")}
    \cup {Response("none", s, b, "invalid") : s \in {200, 304, 500}, b \in Payloads}

FolderResponses ==
    {Response("ConnectionError", 0, <<>>, "invalid")}
    \cup {Response("none", s, <<>>, "object") : s \in {201, 409, 403}}
    \cup {Response("none", s, <<>>, "invalid") : s \in {403, 500}}

LinkResponses ==
    {Response("ConnectionError", 0, <<>>, "invalid")}
    \cup {Response("none", 200, <<>>, j) : j \in {"href", "object", "invalid"}}
    \cup {Response("none", 401, <<>>, "object")}

PutResponses ==
    {Response("ConnectionError", 0, <<>>, "invalid")}
    \cup {Response("none", s, <<>>, "invalid") : s \in {201, 500}}

\* open() either succeeds or raises OSError; a write may also fail midway.
IoOutcomes == {"ok", "open_fails", "dump_fails"}

FullEnv ==
    [ inputs |-> RawInputs, fetch |-> FetchResponses, folder |-> FolderResponses,
      link |-> LinkResponses, put |-> PutResponses, io |-> IoOutcomes ]

\* Two operators running the tool at once on one working directory.
ConcEnv ==
    [ inputs |-> {<<HelloWorld, <<116>>, Group1>>, <<<<97>>, <<116>>, <<103>>>>},
      fetch  |-> {Response("none", 200, <<255>>, "invalid"), Response("none", 500, <<>>, "invalid")},
      folder |-> {Response("none", 201, <<>>, "object"), Response("none", 409, <<>>, "object")},
      link   |-> {Response("none", 200, <<>>, "href")},
      put    |-> {Response("none", 201, <<>>, "invalid")},
      io     |-> {"ok", "open_fails"} ]

\* ----------------------------------------------------- library behaviour
raise_unless_200(status) == status # 200

\* requests.Response.raise_for_status: HTTPError for 4xx and 5xx.
raise_for_status(status) == status \in 400..599

ExceptOnlyOSError(e) == e = "OSError"

\* "except Exception": every exception raised here derives from Exception.
ExceptException(e) ==
    e \in {"Timeout", "ConnectionError", "HTTPError", "JSONDecodeError",
           "KeyError", "OSError", "AttributeError"}

\* Result of a call: the value returned, what it printed, and the exception
\* that escaped it ("none" when it returned).
Result(val, out, raised) == [val |-> val, out |-> out, raised |-> raised]

Handled(e, out, val) ==
    IF ExceptException(e) THEN Result(val, out, "none") ELSE Result(val, <<>>, e)

\* ---------------------------------------------------------- the log file
Absent == [kind |-> "absent", recs |-> <<>>]
Garbage == [kind |-> "garbage", recs |-> <<>>]
JsonObject == [kind |-> "object", recs |-> <<>>]

\* line 116: the file then holds the JSON text of the list.
json_dump(recs) == [kind |-> "list", recs |-> recs]

\* line 109: [t |-> "list"] for a JSON array, "other" for any other JSON
\* value, None with JSONDecodeError for text that is not JSON.
json_load(f) ==
    CASE f.kind = "list" -> Result(Some("list", f.recs), <<>>, "none")
      [] f.kind = "object" -> Result(Some("other", <<>>), <<>>, "none")
      [] OTHER -> Result(None, <<>>, "JSONDecodeError")

list_prepend(existing, data) == <<data>> \o existing

list_drop(existing, data) == existing

\* line 112: existing_data.append(data)
list_append(existing, data) == Append(existing, data)

\* Records left by earlier runs.
PriorRecords ==
    [i \in 1..MaxPrior |->
        MakeFileInfo(i, <<97>>, DeriveFileName(<<97>>), <<255>>, Group1,
                     FullPath(Group1, DeriveFileName(<<97>>)))]

InitialFiles ==
    {Absent, Garbage, JsonObject}
    \cup {json_dump(SubSeq(PriorRecords, 1, n)) : n \in 0..MaxPrior}


\* ------------------------------------------------------------------ state
VARIABLES
    pc,             \* where each run of main is
    stdin,          \* the three lines the operator typed, as typed
    user_text,      \* main's locals, one per run
    yandex_token,
    group_name,
    image_data,
    file_name,
    upload_href,    \* upload_to_yandex's local between its two requests
    success,
    file_path,
    file_info,
    existing_data,  \* save_to_json's local between its read and its write
    effects,        \* requests issued and file opens attempted, with outcome
    printed,        \* what each run has written to the console
    file,           \* result.json
    now             \* the clock datetime.now() reads; it ticks between two reads

vars ==
    << pc, stdin, user_text, yandex_token, group_name, image_data, file_name,
       upload_href, success, file_path, file_info, existing_data, effects,
       printed, file, now >>

locals ==
    << user_text, yandex_token, group_name, image_data, file_name,
       upload_href, success, file_path, file_info, existing_data >>

Effect(op, r) ==
    [op |-> op, err |-> r.err, status |-> r.status, body |-> r.body, json |-> r.json]

FileEffect(op, io) ==
    [ op |-> op, err |-> IF io = "ok" THEN "none" ELSE "OSError", status |-> 0,
      body |-> <<>>, json |-> "invalid" ]

NoRecord == [t |-> "None", v |-> <<>>]

InitWith(started) ==
    /\ pc = [p \in Procs |-> IF p \in started THEN "CollectInput" ELSE "NotStarted"]
    /\ stdin = [p \in Procs |-> <<>>]
    /\ user_text = [p \in Procs |-> <<>>]
    /\ yandex_token = [p \in Procs |-> <<>>]
    /\ group_name = [p \in Procs |-> <<>>]
    /\ image_data = [p \in Procs |-> None]
    /\ file_name = [p \in Procs |-> <<>>]
    /\ upload_href = [p \in Procs |-> None]
    /\ success = [p \in Procs |-> FALSE]
    /\ file_path = [p \in Procs |-> None]
    /\ file_info = [p \in Procs |-> NoRecord]
    /\ existing_data = [p \in Procs |-> None]
    /\ effects = [p \in Procs |-> <<>>]
    /\ printed = [p \in Procs |-> <<>>]
    /\ file \in InitialFiles
    /\ now = Len(file.recs) + 1

\* One run of main.
Init == InitWith({1})

\* Two runs of main started side by side.
InitConc == InitWith(Procs)

\* ----------------------------------------------------- the four functions
\* lines 12-33
get_cat_image(r) ==
    LET exc == IF r.err # "none" THEN r.err
               ELSE IF raise_for_status(r.status) THEN "HTTPError"
               ELSE "none"
    IN  IF exc = "none"
        THEN Result(Some("bytes", r.body), <<"fetching", "image_ok">>, "none")
        ELSE Handled(exc, <<"fetching", "err_image">>, None)

FolderStatusOnlyCreated(status) == status = 201

\* line 51
FolderStatusOk(status) == status \in {201, 409}

\* lines 39-60
create_yandex_folder(r) ==
    IF r.err # "none" THEN Handled(r.err, <<"err_folder">>, FALSE)
    ELSE IF FolderStatusOk(r.status) THEN Result(TRUE, <<"folder_ok">>, "none")
    ELSE IF r.json = "invalid" THEN Handled("JSONDecodeError", <<"err_folder">>, FALSE)
    ELSE Result(FALSE, <<"err_folder_status">>, "none")

UploadFailed == [success |-> FALSE, file_path |-> None]

\* lines 67-80: the exception the upload-link request ends in, or "none".
UploadLinkException(r) ==
    IF r.err # "none" THEN r.err
    ELSE IF raise_for_status(r.status) THEN "HTTPError"
    ELSE IF r.json = "invalid" THEN "JSONDecodeError"
    ELSE IF r.json # "href" THEN "KeyError"
    ELSE "none"

\* lines 83-94: the transfer; the status of the PUT is not looked at.
upload_transfer(r, full_path) ==
    IF r.err # "none"
    THEN Handled(r.err, <<"uploading", "err_upload">>, UploadFailed)
    ELSE Result([success |-> TRUE, file_path |-> Some("str", full_path)],
                <<"uploading", "uploaded">>, "none")


\* ------------------------------------------------------------------- main
Say(p, out) == printed' = [printed EXCEPT ![p] = @ \o out]

Goto(p, label) == pc' = [pc EXCEPT ![p] = label]

Did(p, e) == effects' = [effects EXCEPT ![p] = Append(@, e)]

\* An exception nothing catches ends main with a traceback.
Crash(p) == Say(p, <<"traceback">>) /\ Goto(p, "Crashed")

\* lines 128-140
CollectInput(p, E) ==
    /\ pc[p] = "CollectInput"
    /\ \E raw \in E.inputs :
        LET t == strip(raw[1])
            k == strip(raw[2])
            g == strip(raw[3])
            missing == t = <<>> \/ k = <<>> \/ g = <<>>
        IN  /\ stdin' = [stdin EXCEPT ![p] = raw]
            /\ user_text' = [user_text EXCEPT ![p] = t]
            /\ yandex_token' = [yandex_token EXCEPT ![p] = k]
            /\ group_name' = [group_name EXCEPT ![p] = g]
            /\ IF missing
               THEN Say(p, <<"header", "abort_fields">>) /\ Goto(p, "Aborted")
               ELSE Say(p, <<"header">>) /\ Goto(p, "FetchImage")
    /\ UNCHANGED << image_data, file_name, upload_href, success, file_path,
                    file_info, existing_data, effects, file, now >>

\* lines 143-146
FetchImage(p, E) ==
    /\ pc[p] = "FetchImage"
    /\ \E r \in E.fetch :
        LET res == get_cat_image(r)
        IN  /\ Did(p, Effect("GET image", r))
            /\ IF res.raised # "none"
               THEN Crash(p) /\ UNCHANGED image_data
               ELSE /\ image_data' = [image_data EXCEPT ![p] = res.val]
                    /\ IF Falsy(res.val)
                       THEN Say(p, res.out \o <<"abort_image">>) /\ Goto(p, "Aborted")
                       ELSE Say(p, res.out) /\ Goto(p, "EnsureFolder")
    /\ UNCHANGED << stdin, user_text, yandex_token, group_name, file_name,
                    upload_href, success, file_path, file_info, existing_data,
                    file, now >>

\* lines 149-151
EnsureFolder(p, E) ==
    /\ pc[p] = "EnsureFolder"
    /\ \E r \in E.folder :
        LET res == create_yandex_folder(r)
        IN  /\ Did(p, Effect("PUT folder", r))
            /\ IF res.raised # "none" THEN Crash(p)
               ELSE IF ~res.val
               THEN Say(p, res.out \o <<"abort_folder">>) /\ Goto(p, "Aborted")
               ELSE Say(p, res.out) /\ Goto(p, "UploadLink")
    /\ UNCHANGED << stdin, locals, file, now >>

\* lines 155-159 and 67-80: the name is derived, upload_to_yandex is entered
\* and asks for the upload link.
UploadLink(p, E) ==
    /\ pc[p] = "UploadLink"
    /\ file_name' = [file_name EXCEPT ![p] = DeriveFileName(user_text[p])]
    /\ \E r \in E.link :
        LET exc == UploadLinkException(r)
            res == Handled(exc, <<"getting_link", "err_upload">>, UploadFailed)
        IN  /\ Did(p, Effect("GET upload link", r))
            /\ IF exc = "none"
               THEN /\ upload_href' = [upload_href EXCEPT ![p] =
                            Some("url", FullPath(group_name[p], file_name'[p]))]
                    /\ Say(p, <<"getting_link">>)
                    /\ Goto(p, "Transfer")
                    /\ UNCHANGED << success, file_path >>
               ELSE IF res.raised # "none"
               THEN Crash(p) /\ UNCHANGED << upload_href, success, file_path >>
               ELSE /\ success' = [success EXCEPT ![p] = res.val.success]
                    /\ file_path' = [file_path EXCEPT ![p] = res.val.file_path]
                    /\ Say(p, res.out)
                    /\ Goto(p, "Banner")
                    /\ UNCHANGED upload_href
    /\ UNCHANGED << stdin, user_text, yandex_token, group_name, image_data,
                    file_info, existing_data, file, now >>

\* lines 83-94 and 159-172: the transfer, and the record main builds when
\* upload_to_yandex reports success.
Transfer(p, E) ==
    /\ pc[p] = "Transfer"
    /\ \E r \in E.put :
        LET res == upload_transfer(r, FullPath(group_name[p], file_name[p]))
        IN  /\ Did(p, Effect("PUT transfer", r))
            /\ IF res.raised # "none"
               THEN Crash(p) /\ UNCHANGED << success, file_path, file_info, now >>
               ELSE /\ success' = [success EXCEPT ![p] = res.val.success]
                    /\ file_path' = [file_path EXCEPT ![p] = res.val.file_path]
                    /\ Say(p, res.out)
                    /\ IF res.val.success
                       THEN /\ file_info' = [file_info EXCEPT ![p] =
                                    Some("dict", MakeFileInfo(now, user_text[p], file_name[p],
                                                              image_data[p].v, group_name[p],
                                                              res.val.file_path.v))]
                            /\ now' = now + 1
                            /\ Goto(p, "SaveRead")
                       ELSE /\ Goto(p, "Banner")
                            /\ UNCHANGED << file_info, now >>
    /\ UNCHANGED << stdin, user_text, yandex_token, group_name, image_data,
                    file_name, upload_href, existing_data, file >>

\* lines 106-109 of save_to_json
SaveRead(p, E) ==
    /\ pc[p] = "SaveRead"
    /\ IF file.kind = "absent"
       THEN /\ existing_data' = [existing_data EXCEPT ![p] = Some("list", <<>>)]
            /\ Goto(p, "SaveWrite")
            /\ UNCHANGED << effects, printed >>
       ELSE \E io \in E.io \cap {"ok", "open_fails"} :
            LET loaded == json_load(file)
                exc == IF io # "ok" THEN "OSError" ELSE loaded.raised
                res == Handled(exc, <<"err_json">>, None)
            IN  /\ Did(p, FileEffect("read log", io))
                /\ IF exc = "none"
                   THEN /\ existing_data' = [existing_data EXCEPT ![p] = loaded.val]
                        /\ Goto(p, "SaveWrite")
                        /\ UNCHANGED printed
                   ELSE IF res.raised # "none"
                   THEN Crash(p) /\ UNCHANGED existing_data
                   ELSE Say(p, res.out) /\ Goto(p, "Banner") /\ UNCHANGED existing_data
    /\ UNCHANGED << stdin, user_text, yandex_token, group_name, image_data,
                    file_name, upload_href, success, file_path, file_info, file, now >>

\* lines 112-121 of save_to_json
SaveWrite(p, E) ==
    /\ pc[p] = "SaveWrite"
    /\ IF existing_data[p].t # "list"
       THEN LET res == Handled("AttributeError", <<"err_json">>, None)
            IN  /\ IF res.raised # "none" THEN Crash(p)
                   ELSE Say(p, res.out) /\ Goto(p, "Banner")
                /\ UNCHANGED << existing_data, effects, file >>
       ELSE \E io \in E.io :
            LET appended == list_append(existing_data[p].v, file_info[p].v)
                res == Handled("OSError", <<"err_json">>, None)
            IN  /\ existing_data' = [existing_data EXCEPT ![p] = Some("list", appended)]
                /\ Did(p, FileEffect("write log", io))
                /\ file' = CASE io = "ok" -> json_dump(appended)
                             [] io = "dump_fails" -> Garbage
                             [] OTHER -> file
                /\ IF io = "ok" THEN Say(p, <<"saved">>) /\ Goto(p, "Banner")
                   ELSE IF res.raised # "none" THEN Crash(p)
                   ELSE Say(p, res.out) /\ Goto(p, "Banner")
    /\ UNCHANGED << stdin, user_text, yandex_token, group_name, image_data,
                    file_name, upload_href, success, file_path, file_info, now >>

\* lines 176-182
Banner(p) ==
    /\ pc[p] = "Banner"
    /\ Say(p, <<"banner">>)
    /\ Goto(p, "Done")
    /\ UNCHANGED << stdin, locals, effects, file, now >>

\* ---------------------------------------------------------- specifications
Next ==
    \/ CollectInput(1, FullEnv)
    \/ FetchImage(1, FullEnv)
    \/ EnsureFolder(1, FullEnv)
    \/ UploadLink(1, FullEnv)
    \/ Transfer(1, FullEnv)
    \/ SaveRead(1, FullEnv)
    \/ SaveWrite(1, FullEnv)
    \/ Banner(1)

Spec == Init /\ [][Next]_vars

NextConc ==
    \/ \E p \in Procs : CollectInput(p, ConcEnv)
    \/ \E p \in Procs : FetchImage(p, ConcEnv)
    \/ \E p \in Procs : EnsureFolder(p, ConcEnv)
    \/ \E p \in Procs : UploadLink(p, ConcEnv)
    \/ \E p \in Procs : Transfer(p, ConcEnv)
    \/ \E p \in Procs : SaveRead(p, ConcEnv)
    \/ \E p \in Procs : SaveWrite(p, ConcEnv)
    \/ \E p \in Procs : Banner(p)

SpecConc == InitConc /\ [][NextConc]_vars


\* ----------------------------------------------------- reading the state
EffectsOf(p, op) ==
    {effects[p][i] : i \in {j \in DOMAIN effects[p] : effects[p][j].op = op}}

Issued(p, op) == EffectsOf(p, op) # {}

Printed(p, msg) == \E i \in DOMAIN printed[p] : printed[p][i] = msg

InFile(r) == \E i \in DOMAIN file.recs : file.recs[i] = r

Front(s) == SubSeq(s, 1, Len(s) - 1)

Blank(raw) == \A i \in DOMAIN raw : IsSpace(raw[i])

\* The request got a response that is no client or server error.
Answered(e) == e.err = "none" /\ e.status \notin 400..599

Is2xx(e) == e.err = "none" /\ e.status \in 200..299

SafeAscii == (48..57) \cup (65..90) \cup (97..122) \cup {45, 95}

\* ----------------------------------------------------------------- claims

\* C1: a stage's external effect happens only after every earlier stage
\* succeeded: no request unless caption, token and folder are non-blank; the
\* folder PUT only after a successful image fetch; the upload-link GET only
\* after a successful folder-ensure; the transfer PUT only after a successful
\* upload-link request; the log file opened only after a successful upload.
C1_EffectsOnlyAfterSuccess ==
    \A p \in Procs :
        /\ effects[p] # <<>> =>
              \A i \in 1..3 : ~Blank(stdin[p][i])
        /\ Issued(p, "PUT folder") =>
              \E e \in EffectsOf(p, "GET image") : Answered(e)
        /\ Issued(p, "GET upload link") =>
              \E e \in EffectsOf(p, "PUT folder") : e.err = "none" /\ e.status \in {201, 409}
        /\ Issued(p, "PUT transfer") =>
              \E e \in EffectsOf(p, "GET upload link") : Answered(e) /\ e.json = "href"
        /\ (Issued(p, "read log") \/ Issued(p, "write log")) =>
              \E e \in EffectsOf(p, "PUT transfer") : Answered(e)

\* The clauses of C1 that stop short of the log: they hold of every run.
C1_UpToTransfer ==
    \A p \in Procs :
        /\ effects[p] # <<>> =>
              \A i \in 1..3 : ~Blank(stdin[p][i])
        /\ Issued(p, "PUT folder") =>
              \E e \in EffectsOf(p, "GET image") : Answered(e)
        /\ Issued(p, "GET upload link") =>
              \E e \in EffectsOf(p, "PUT folder") : e.err = "none" /\ e.status \in {201, 409}
        /\ Issued(p, "PUT transfer") =>
              \E e \in EffectsOf(p, "GET upload link") : Answered(e) /\ e.json = "href"

\* C2: when the log is absent or holds a valid list of N records and
\* save_to_json completes successfully, the file then holds N+1 records: the
\* N prior ones unchanged and in order, and the new record last.
C2_AppendPreservesPrior ==
    [][ \A p \in Procs :
          (pc[p] = "SaveWrite" /\ Printed(p, "saved")' /\ file.kind \in {"absent", "list"})
          => /\ file'.kind = "list"
             /\ Len(file'.recs) = Len(file.recs) + 1
             /\ SubSeq(file'.recs, 1, Len(file.recs)) = file.recs
             /\ file'.recs[Len(file'.recs)] = file_info[p].v ]_vars

C2_Witness ==
    /\ pc[1] = "Done"
    /\ Printed(1, "saved")
    /\ Len(file.recs) = MaxPrior + 1

\* C3: when the PUT to the write location returns a non-2xx status,
\* upload_to_yandex reports failure and the run appends no record.
C3_TransferFailsByStatus ==
    \A p \in Procs :
        \A e \in EffectsOf(p, "PUT transfer") :
            ~Is2xx(e) => /\ ~success[p]
                         /\ file_info[p].t = "None"
                         /\ ~Issued(p, "write log")

\* C4: once the upload succeeded, a log file that is corrupt, unparsable,
\* unreadable or unwritable is reported without an exception escaping, and
\* the run still ends with the completion banner, never aborted.
C4_LogFailureIsolated ==
    \A p \in Procs :
        success[p] =>
            /\ pc[p] \in {"SaveRead", "SaveWrite", "Banner", "Done"}
            /\ ~Printed(p, "traceback")
            /\ pc[p] \in {"Banner", "Done"} => (Printed(p, "saved") # Printed(p, "err_json"))
            /\ (Printed(p, "err_json") /\ pc[p] = "Done") => Printed(p, "banner")
            /\ (p = 1 /\ pc[p] # "Done") => ENABLED Next

C4_Witness ==
    /\ pc[1] = "Done"
    /\ success[1]
    /\ file.kind = "garbage"
    /\ Printed(1, "err_json")
    /\ Printed(1, "banner")


\* C5 (as stated): every character of the derived filename is in
\* [A-Za-z0-9_-].
C5_FileNameAsciiSafe ==
    \A p \in Procs :
        \A i \in DOMAIN file_name[p] : file_name[p][i] \in SafeAscii

\* C5 (amended): every character of the derived filename is alphanumeric in
\* the sense of str.isalnum (non-ASCII letters and digits included), a hyphen
\* or an underscore, so it holds no space and no other punctuation; for a
\* caption of ASCII characters alone every character is in [A-Za-z0-9_-].
C5_FileNameAlnumHyphenUnderscore ==
    \A p \in Procs :
        pc[p] \in {"Transfer", "SaveRead", "SaveWrite", "Banner", "Done"} =>
            /\ Len(file_name[p]) = Len(user_text[p])
            /\ \A i \in DOMAIN file_name[p] :
                  /\ IsAlnum(file_name[p][i]) \/ file_name[p][i] \in {45, 95}
                  /\ ~IsSpace(file_name[p][i])
            /\ (\A i \in DOMAIN user_text[p] : user_text[p][i] < 128) =>
                  \A i \in DOMAIN file_name[p] : file_name[p][i] \in SafeAscii

\* Caption "п!" becomes "п_".
C5_Witness ==
    /\ pc[1] = "Transfer"
    /\ user_text[1] = <<1087, 33>>
    /\ file_name[1] = <<1087, 95>>

\* C6: a run in which every stage succeeds appends exactly one record, with
\* file_name the derived filename plus ".jpg", folder the trimmed folder
\* input, the remote path "<folder>/<derived filename>.jpg", the byte size
\* the length of the fetched payload and status "uploaded"; caption
\* "Hello World!" with folder "group1" gives file_name "Hello_World_.jpg".
C6_RecordReflectsRun ==
    \A p \in {1} :
        (pc[p] \in {"Banner", "Done"} /\ Printed(p, "saved")) =>
            LET n == Len(file.recs)
                r == file.recs[n]
                raw == stdin[p][3]
            IN  /\ n >= 1
                /\ Front(file.recs) = SubSeq(PriorRecords, 1, n - 1)
                /\ r.file_name = file_name[p] \o DotJpg
                /\ \E i, j \in DOMAIN raw :
                      /\ r.folder = SubSeq(raw, i, j)
                      /\ ~IsSpace(raw[i]) /\ ~IsSpace(raw[j])
                      /\ \A k \in DOMAIN raw : (k < i \/ k > j) => IsSpace(raw[k])
                /\ r.yandex_path = r.folder \o Slash \o file_name[p] \o DotJpg
                /\ \E e \in EffectsOf(p, "GET image") : r.file_size_bytes = Len(e.body)
                /\ r.status = "uploaded"
                /\ r.text = user_text[p]
                /\ (user_text[p] = HelloWorld /\ r.folder = Group1) =>
                      \* "Hello_World_.jpg"
                      r.file_name = <<72, 101, 108, 108, 111, 95, 87, 111, 114, 108, 100, 95,
                                      46, 106, 112, 103>>

C6_Witness ==
    /\ pc[1] = "Done"
    /\ Printed(1, "saved")
    /\ user_text[1] = HelloWorld
    /\ group_name[1] = Group1
    /\ \A e \in EffectsOf(1, "PUT transfer") : Is2xx(e)
    /\ Len(file.recs) = MaxPrior + 1

\* C7 (as stated): the image fetch fails exactly when there is a network
\* error, a timeout or a non-2xx status; for every 2xx response the body is
\* returned unmodified and main proceeds to the folder-ensure stage.
C7_FetchFailsExactlyOnNon2xx ==
    \A p \in Procs :
        \A e \in EffectsOf(p, "GET image") :
            /\ Is2xx(e) <=> ~Printed(p, "abort_image")
            /\ Is2xx(e) => image_data[p] = Some("bytes", e.body)

\* C7 (amended): once the request is issued, get_cat_image fails exactly when
\* it ends in a network error, a timeout or a 4xx/5xx status; for every other response, every 2xx included,
\* it returns the body unmodified, and main proceeds to the folder-ensure
\* stage exactly when that body is non-empty (an empty body aborts the run).
C7_FetchFailsOnErrorOr4xx5xx ==
    \A p \in Procs :
        \A e \in EffectsOf(p, "GET image") :
            /\ ~Printed(p, "traceback")
            /\ Answered(e) => image_data[p] = Some("bytes", e.body)
            /\ ~Answered(e) => image_data[p] = None
            /\ Printed(p, "abort_image") <=> (~Answered(e) \/ e.body = <<>>)
            /\ Printed(p, "abort_image") => pc[p] = "Aborted"
            /\ ~Printed(p, "abort_image") => pc[p] # "FetchImage"
            /\ Printed(p, "err_image") <=> ~Answered(e)
            /\ Issued(p, "PUT folder") => (Answered(e) /\ e.body # <<>>)

C7_Witness ==
    /\ pc[1] = "EnsureFolder"
    /\ \E e \in EffectsOf(1, "GET image") :
          /\ e.status = 200
          /\ e.body # <<>>
          /\ image_data[1] = Some("bytes", e.body)

\* C8: create_yandex_folder returns True exactly when the creation PUT
\* returns 201 or 409, and returns False without raising for any other
\* status or any network error, also when the error body is not valid JSON.
C8_FolderOkExactlyOn201Or409 ==
    \A p \in Procs :
        \A e \in EffectsOf(p, "PUT folder") :
            LET created == e.err = "none" /\ e.status \in {201, 409}
            IN  /\ ~Printed(p, "traceback") /\ pc[p] # "Crashed"
                /\ created <=> Printed(p, "folder_ok")
                /\ created <=> ~Printed(p, "abort_folder")
                /\ created <=> pc[p] \in {"UploadLink", "Transfer", "SaveRead", "SaveWrite",
                                         "Banner", "Done"}
                /\ ~created <=> pc[p] = "Aborted"

C8_Witness ==
    /\ pc[1] = "Aborted"
    /\ \E e \in EffectsOf(1, "PUT folder") :
          e.err = "none" /\ e.status = 403 /\ e.json = "invalid"

\* C9: the completion banner is reached only by runs in which the upload
\* succeeded, never by a run whose upload-link request or transfer failed.
C9_DoneOnlyAfterUpload ==
    \A p \in Procs :
        pc[p] = "Done" =>
            /\ success[p]
            /\ \E e \in EffectsOf(p, "GET upload link") : Answered(e)
            /\ \E e \in EffectsOf(p, "PUT transfer") : e.err = "none"

\* C10: two concurrent runs that both upload successfully can lose an
\* update: when both read the same N records before either writes and both
\* report the record saved, the file holds N+1 records and exactly one of
\* the two records is missing; when one reads after the other wrote, both
\* records are in the file.
C10_LostUpdate ==
    (/\ \A p \in Procs : Printed(p, "saved")
     /\ file.kind = "list")
    => LET mine(p) == existing_data[p].v
           read(p) == Front(mine(p))
       IN  IF read(1) = read(2)
           THEN /\ Len(file.recs) = Len(read(1)) + 1
                /\ Front(file.recs) = read(1)
                /\ InFile(file_info[1].v) # InFile(file_info[2].v)
           ELSE /\ InFile(file_info[1].v) /\ InFile(file_info[2].v)
                /\ Len(file.recs) = Len(read(1)) + 1 \/ Len(file.recs) = Len(read(2)) + 1

C10_Witness ==
    /\ \A p \in Procs : pc[p] = "Done" /\ Printed(p, "saved")
    /\ Front(existing_data[1].v) = Front(existing_data[2].v)
    /\ Len(file.recs) = MaxPrior + 1
    /\ ~InFile(file_info[1].v)
    /\ InFile(file_info[2].v)

=============================================================================
